---- MODULE Spec2Model ----
(***************************************************************************)
(* A model of reorg.py: staging of FITS frames of one imaging session.     *)
(*                                                                         *)
(* A file name is a sequence of one-character strings, a path a sequence   *)
(* of names relative to the session root (<< >> is the root itself). The   *)
(* filesystem is a function from the existing paths to their nodes.        *)
(***************************************************************************)
EXTENDS Integers, Sequences, FiniteSets, TLC

\* Upper limit on the number of catalogue entries present when the run starts.
MaxFiles == 3

\* The same limit for a run whose lights_dir is ".", where every directory of
\* the session, the destination included, is part of the lights source.
MaxDotFiles == 1

\* Python's None as returned by header.get(key) for an absent keyword.
None == -1

----------------------------------------------------------------------------
\* Names

DotFits == <<".", "f", "i", "t", "s">>
N_a == <<"a">> \o DotFits
N_a1 == <<"a", "_", "1">> \o DotFits
N_failed == <<"F", "a", "i", "l", "e", "d", "_", "b">> \o DotFits
N_stacked == <<"S", "T", "A", "C", "K", "E", "D">> \o DotFits
N_d == <<"d">> \o DotFits
N_raw == <<"r", "a", "w">>
N_sub == <<"s", "u", "b">>
N_cali == <<"C", "A", "L", "I", "_", "F", "R", "A", "M", "E">>
N_siril == <<"s", "i", "r", "i", "l", "-", "r", "e", "a", "d", "y">>
N_cam01 == <<"c", "a", "m", "_", "0", "1">>
N_cam0t == <<"c", "a", "m", "_", "0", "_", "t">>
N_cam1 == <<"c", "a", "m", "_", "1">>
N_camera0 == <<"c", "a", "m", "e", "r", "a", "_", "0">>
N_lights == <<"l", "i", "g", "h", "t", "s">>
N_darks == <<"d", "a", "r", "k", "s">>
N_flats == <<"f", "l", "a", "t", "s">>
N_biases == <<"b", "i", "a", "s", "e", "s">>
N_dark == <<"d", "a", "r", "k">>
N_flat == <<"f", "l", "a", "t">>
N_bias == <<"b", "i", "a", "s">>

----------------------------------------------------------------------------
\* str methods

UpperChars == <<"A", "B", "C", "D", "E", "F", "G", "H", "I", "J", "K", "L", "M",
                "N", "O", "P", "Q", "R", "S", "T", "U", "V", "W", "X", "Y", "Z">>
LowerChars == <<"a", "b", "c", "d", "e", "f", "g", "h", "i", "j", "k", "l", "m",
                "n", "o", "p", "q", "r", "s", "t", "u", "v", "w", "x", "y", "z">>

\* str.lower() on one character.
LowerChar(c) ==
    IF \E i \in 1..26 : UpperChars[i] = c
    THEN LowerChars[CHOOSE i \in 1..26 : UpperChars[i] = c]
    ELSE c

\* str.lower()
Lower(s) == [i \in 1..Len(s) |-> LowerChar(s[i])]

\* str.startswith(prefix)
StartsWith(s, prefix) ==
    /\ Len(prefix) <= Len(s)
    /\ SubSeq(s, 1, Len(prefix)) = prefix

\* str.endswith(suffix)
EndsWith(s, suffix) ==
    /\ Len(suffix) <= Len(s)
    /\ SubSeq(s, Len(s) - Len(suffix) + 1, Len(s)) = suffix

\* str.rfind(c) + 1: the last position of c in s, 0 when c is not in s.
RFind(s, c) ==
    IF \E i \in 1..Len(s) : s[i] = c
    THEN CHOOSE i \in 1..Len(s) : s[i] = c /\ \A j \in (i+1)..Len(s) : s[j] # c
    ELSE 0

Digits == <<"0", "1", "2", "3", "4", "5", "6", "7", "8", "9">>

\* The decimal text of a counter, as the f-string formats it.
RECURSIVE Str(_)
Str(k) == IF k < 10 THEN <<Digits[k + 1]>>
          ELSE Str(k \div 10) \o <<Digits[(k % 10) + 1]>>

----------------------------------------------------------------------------
\* pathlib

\* PurePath.name: the last component, the empty string for "." .
PathName(p) == IF p = <<>> THEN <<>> ELSE p[Len(p)]

\* PurePath.parent
Parent(p) == IF p = <<>> THEN <<>> ELSE SubSeq(p, 1, Len(p) - 1)

\* base / name: joining the empty string (the name of ".") adds nothing.
Join(base, name) == IF name = <<>> THEN base ELSE Append(base, name)

\* base / relative, for a relative path of several components.
JoinPath(base, rel) == base \o rel

\* PurePath.suffix of a file name.
Suffix(name) ==
    LET i == RFind(name, ".")
    IN  IF 1 < i /\ i < Len(name) THEN SubSeq(name, i, Len(name)) ELSE <<>>

\* PurePath.stem of a file name.
Stem(name) ==
    LET i == RFind(name, ".")
    IN  IF 1 < i /\ i < Len(name) THEN SubSeq(name, 1, i - 1) ELSE name

\* PurePath.with_name(name)
WithName(p, name) == Append(Parent(p), name)

\* p is q or an ancestor of q.
IsPrefix(p, q) == Len(p) <= Len(q) /\ SubSeq(q, 1, Len(p)) = p

\* q lies strictly below p.
Below(p, q) == IsPrefix(p, q) /\ p # q

\* Path.exists()
Exists(f, p) == p \in DOMAIN f

\* Path.is_dir()
IsDir(f, p) == p \in DOMAIN f /\ f[p].kind = "dir"

\* Path.iterdir(): the entries of directory d.
IterDir(f, d) == {p \in DOMAIN f : Len(p) = Len(d) + 1 /\ Parent(p) = d}

\* The pattern "*.fits" of rglob, matched against a name.
GlobMatch(name) == EndsWith(name, DotFits)

----------------------------------------------------------------------------
\* FITS headers and filesystem nodes

\* The primary header of a FITS file: ok is FALSE when fits.open raises on it.
Header(exposure, exptime, naxis1, naxis2) ==
    [ok |-> TRUE, EXPOSURE |-> exposure, EXPTIME |-> exptime,
     GAIN |-> None, ISO |-> None, NAXIS1 |-> naxis1, NAXIS2 |-> naxis2]

Corrupt ==
    [ok |-> FALSE, EXPOSURE |-> None, EXPTIME |-> None,
     GAIN |-> None, ISO |-> None, NAXIS1 |-> None, NAXIS2 |-> None]

H_ok == Header(5, None, 1, 1)
H_exp10 == Header(0, 10, 1, 1)
H_wide == Header(5, None, 2, 1)
H_tall == Header(5, None, 1, 2)
H_nox == Header(5, None, None, 1)
H_noexp == Header(None, None, 1, 1)

\* A regular file: org names the bytes (the path they were first stored at).
FileNode(org, hdr) == [kind |-> "file", org |-> org, hdr |-> hdr]

DirNode(p) == [kind |-> "dir", org |-> p, hdr |-> Corrupt]

\* Python truthiness of a header value.
Truthy(v) == v # None /\ v # 0

\* a or b
PyOr(a, b) == IF Truthy(a) THEN a ELSE b

\* The result None of get_fits_metadata.
NoMeta == [some |-> FALSE, exposure |-> None, gain |-> None, x |-> None, y |-> None]

\* get_fits_metadata(file_path): opening a directory, a missing path or a
\* corrupt file raises, and the function returns None.
get_fits_metadata(f, p) ==
    IF p \in DOMAIN f /\ f[p].kind = "file" /\ f[p].hdr.ok
    THEN LET header == f[p].hdr
         IN  [some |-> TRUE,
              exposure |-> PyOr(header.EXPOSURE, header.EXPTIME),
              gain |-> PyOr(header.GAIN, header.ISO),
              x |-> header.NAXIS1,
              y |-> header.NAXIS2]
    ELSE NoMeta

----------------------------------------------------------------------------
\* setup_directories

\* Path.unlink() / shutil.rmtree(item): item and everything below it goes.
RemoveTree(f, item) == [p \in {q \in DOMAIN f : ~IsPrefix(item, q)} |-> f[p]]

\* Path.unlink() of a file.
Unlink(f, item) == [p \in DOMAIN f \ {item} |-> f[p]]

\* Mutant of CleanItems: the loop unlinks the files and skips the directories.
CleanFilesOnly(f, items) ==
    [p \in {q \in DOMAIN f : q \notin items \/ IsDir(f, q)} |-> f[p]]

\* The loop over target_dir.iterdir(): directories by rmtree, the rest by unlink.
RECURSIVE CleanItems(_, _)
CleanItems(f, items) ==
    IF items = {} THEN f
    ELSE LET item == CHOOSE i \in items : TRUE
         IN  CleanItems(IF IsDir(f, item) THEN RemoveTree(f, item) ELSE Unlink(f, item),
                        items \ {item})

\* Path.mkdir(parents=True) fails when an ancestor is not a directory.
MkdirRaises(f, p) == \E i \in 0..(Len(p) - 1) :
    LET a == SubSeq(p, 1, i) IN a \in DOMAIN f /\ f[a].kind # "dir"

\* Path.mkdir(parents=True): the directory and its missing ancestors.
Mkdir(f, p) ==
    LET new == {SubSeq(p, 1, i) : i \in 0..Len(p)} \ DOMAIN f
    IN  [q \in DOMAIN f \cup new |-> IF q \in DOMAIN f THEN f[q] ELSE DirNode(q)]

\* One iteration of the loop of setup_directories, for target_dir.
SetupOne(f, target_dir) ==
    IF Exists(f, target_dir)
    THEN IF IsDir(f, target_dir)
         THEN [fs |-> CleanItems(f, IterDir(f, target_dir)), raised |-> "none"]
         ELSE [fs |-> f, raised |-> "NotADirectoryError"]
    ELSE IF MkdirRaises(f, target_dir)
         THEN [fs |-> f, raised |-> "NotADirectoryError"]
         ELSE [fs |-> Mkdir(f, target_dir), raised |-> "none"]

\* setup_directories(base_path, dir_names), from the i-th name on: the
\* filesystem it leaves and the exception it raised, if any.
RECURSIVE SetupFrom(_, _, _, _)
SetupFrom(f, base_path, dir_names, i) ==
    IF i > Len(dir_names) THEN [fs |-> f, raised |-> "none"]
    ELSE LET r == SetupOne(f, Join(base_path, dir_names[i]))
         IN  IF r.raised # "none" THEN r
             ELSE SetupFrom(r.fs, base_path, dir_names, i + 1)

setup_directories(f, base_path, dir_names) == SetupFrom(f, base_path, dir_names, 1)

----------------------------------------------------------------------------
\* get_unique_path

\* The while loop of get_unique_path, entered with the given counter.
RECURSIVE UniqueFrom(_, _, _)
UniqueFrom(f, destination, counter) ==
    LET name == PathName(destination)
        new_path == WithName(destination, Stem(name) \o <<"_">> \o Str(counter) \o Suffix(name))
    IN  IF ~Exists(f, new_path) THEN new_path
        ELSE UniqueFrom(f, destination, counter + 1)

\* Mutant of get_unique_path: no collision handling.
UniquePathUnchecked(f, destination) == destination

\* Mutant of get_unique_path: the counter starts at 0.
UniquePathFromZero(f, destination) ==
    IF ~Exists(f, destination) THEN destination
    ELSE UniqueFrom(f, destination, 0)

get_unique_path(f, destination) ==
    IF ~Exists(f, destination) THEN destination
    ELSE UniqueFrom(f, destination, 1)

\* shutil.copy2(src, dest) with the outcome io of the underlying I/O:
\* "ok", "error" (raised before dest was created) or "partial" (raised after
\* dest was created). Copying a directory raises IsADirectoryError.
copy2(f, src, dest, io) ==
    IF f[src].kind = "dir" THEN [fs |-> f, raised |-> "IsADirectoryError"]
    ELSE IF io = "ok"
         THEN [fs |-> (dest :> FileNode(f[src].org, f[src].hdr)) @@ f, raised |-> "none"]
    ELSE IF io = "partial"
         THEN [fs |-> (dest :> FileNode(f[src].org, Corrupt)) @@ f, raised |-> "OSError"]
    ELSE [fs |-> f, raised |-> "OSError"]

----------------------------------------------------------------------------
\* The sessions the run may start from

RawA == <<N_raw, N_a>>
RawSubA == <<N_raw, N_sub, N_a>>
RawSubD == <<N_raw, N_sub, N_d>>
DarkCam01A == <<N_cali, N_dark, N_cam01, N_a>>
FlatCam0tA == <<N_cali, N_flat, N_cam0t, N_a>>
BiasCam01A == <<N_cali, N_bias, N_cam01, N_a>>
StaleLights == <<N_siril, N_raw, N_lights, N_a>>
StagedA == <<N_siril, N_raw, N_a>>
RawSubSubA == <<N_raw, N_sub, N_sub, N_a>>

\* The entries a session directory may hold when the run starts; the
\* directories above an entry exist with it.
Catalog ==
    { [path |-> RawA, node |-> FileNode(RawA, H_ok)],
      [path |-> RawA, node |-> FileNode(RawA, Corrupt)],
      [path |-> RawA, node |-> FileNode(RawA, H_nox)],
      [path |-> RawSubA, node |-> FileNode(RawSubA, H_wide)],
      [path |-> RawSubSubA, node |-> FileNode(RawSubSubA, H_ok)],
      [path |-> StagedA, node |-> FileNode(StagedA, H_ok)],
      [path |-> <<N_raw, N_a1>>, node |-> FileNode(<<N_raw, N_a1>>, H_ok)],
      [path |-> <<N_raw, N_failed>>, node |-> FileNode(<<N_raw, N_failed>>, H_tall)],
      [path |-> <<N_raw, N_sub, N_stacked>>,
       node |-> FileNode(<<N_raw, N_sub, N_stacked>>, H_tall)],
      [path |-> RawSubD, node |-> DirNode(RawSubD)],
      [path |-> DarkCam01A, node |-> FileNode(DarkCam01A, H_ok)],
      [path |-> DarkCam01A, node |-> FileNode(DarkCam01A, H_exp10)],
      [path |-> <<N_cali, N_dark, N_cam0t, N_sub, N_a>>,
       node |-> FileNode(<<N_cali, N_dark, N_cam0t, N_sub, N_a>>, H_ok)],
      [path |-> <<N_cali, N_dark, N_cam1, N_a>>,
       node |-> FileNode(<<N_cali, N_dark, N_cam1, N_a>>, H_ok)],
      [path |-> <<N_cali, N_dark, N_a>>, node |-> FileNode(<<N_cali, N_dark, N_a>>, H_ok)],
      [path |-> FlatCam0tA, node |-> FileNode(FlatCam0tA, H_exp10)],
      [path |-> FlatCam0tA, node |-> FileNode(FlatCam0tA, H_wide)],
      [path |-> <<N_cali, N_flat, N_camera0, N_a>>,
       node |-> FileNode(<<N_cali, N_flat, N_camera0, N_a>>, H_ok)],
      [path |-> BiasCam01A, node |-> FileNode(BiasCam01A, H_nox)],
      [path |-> BiasCam01A, node |-> FileNode(BiasCam01A, H_noexp)],
      [path |-> <<N_cali, N_bias, N_cam01, N_d>>,
       node |-> FileNode(<<N_cali, N_bias, N_cam01, N_d>>, Corrupt)],
      [path |-> StaleLights, node |-> FileNode(StaleLights, H_ok)],
      [path |-> <<N_siril, N_raw, N_darks, N_sub, N_a>>,
       node |-> FileNode(<<N_siril, N_raw, N_darks, N_sub, N_a>>, H_ok)],
      [path |-> <<N_siril, N_raw, N_flats>>,
       node |-> FileNode(<<N_siril, N_raw, N_flats>>, Corrupt)] }

\* The subsets of S of at most k elements.
RECURSIVE SubsetsUpTo(_, _)
SubsetsUpTo(S, k) ==
    IF k = 0 THEN {{}}
    ELSE LET prev == SubsetsUpTo(S, k - 1)
         IN  prev \cup {T \cup {x} : T \in prev, x \in S}

\* The selections of catalogue entries that name every path once.
Sessions ==
    {T \in SubsetsUpTo(Catalog, MaxFiles) :
        \A a, b \in T : a.path = b.path => a = b}

\* The filesystem holding the entries of T and the directories above them.
BuildFs(T) ==
    LET paths == {e.path : e \in T}
        dirs == {SubSeq(q, 1, i) : q \in paths, i \in 0..0} \cup
                UNION {{SubSeq(q, 1, i) : i \in 0..(Len(q) - 1)} : q \in paths}
    IN  [p \in paths \cup dirs |->
            IF p \in paths THEN (CHOOSE e \in T : e.path = p).node ELSE DirNode(p)]

\* The values of the lights_dir argument: "raw", "." and "siril-ready/raw".
LightsDirArgs == {<<N_raw>>, <<>>, <<N_siril, N_raw>>}

----------------------------------------------------------------------------
\* reorganize_fits

target_dirs == <<N_lights, N_darks, N_flats, N_biases>>

cali_map == <<[src |-> N_dark, dest |-> N_darks],
              [src |-> N_flat, dest |-> N_flats],
              [src |-> N_bias, dest |-> N_biases]>>

\* session_subdir = Path(lights_src_name).name
session_subdir(lights) == PathName(lights)

\* dest_root = root / "siril-ready" / session_subdir
dest_root(lights) == Join(<<N_siril>>, session_subdir(lights))

lights_src_path(lights) == JoinPath(<<>>, lights)

lights_dest_path(lights) == Join(dest_root(lights), N_lights)

cali_root == <<N_cali>>

\* Mutant of cam_regex_match: the pattern ^cam_.*$ of any camera index.
CamAnyIndexMatch(name) == StartsWith(name, <<"c", "a", "m", "_">>)

\* cam_regex.match(name) for ^cam_0.*$
cam_regex_match(name) == StartsWith(name, <<"c", "a", "m", "_", "0">>)

\* any(name.lower().startswith(s) for s in ["failed", "stacked"])
Excluded(name) ==
    \E s \in {<<"f", "a", "i", "l", "e", "d">>, <<"s", "t", "a", "c", "k", "e", "d">>} :
        StartsWith(Lower(name), s)

\* The comparison of lines 104-112: TRUE when the frame is to be skipped.
Rejected(meta, base, dest_sub) ==
    \/ meta.x # base.x
    \/ meta.y # base.y
    \/ (dest_sub = N_darks /\ meta.exposure # base.exposure)

VARIABLES
    fs,              \* the filesystem below the session root
    fs0,             \* the filesystem when the run started
    lights_src_name, \* the lights_dir argument
    pc,              \* the position of the run
    raised,          \* the exception that ended the run, "none" while it runs
    baseline,        \* the baseline metadata, NoMeta for None
    stack,           \* rglob: the directories still to visit, innermost last
    files,           \* rglob: the matches of the visited directory not yet yielded
    cat,             \* the index in cali_map of the category being processed
    folders,         \* the entries of the category directory not yet looked at
    log              \* the calls of shutil.copy2 so far

vars == <<fs, fs0, lights_src_name, pc, raised, baseline, stack, files, cat, folders, log>>

Init ==
    /\ \E T \in Sessions, lights \in LightsDirArgs :
        /\ lights = <<>> => Cardinality(T) <= MaxDotFiles
        /\ fs = BuildFs(T)
        /\ lights_src_name = lights
    /\ fs0 = fs
    /\ pc = "main"
    /\ raised = "none"
    /\ baseline = NoMeta
    /\ stack = <<>>
    /\ files = {}
    /\ cat = 0
    /\ folders = {}
    /\ log = {}

Running == raised = "none"

\* main: the directory checks of line 129.
Main ==
    /\ pc = "main" /\ Running
    /\ pc' = IF IsDir(fs, <<>>) /\ IsDir(fs, lights_src_path(lights_src_name))
             THEN "setup" ELSE "invalid"
    /\ UNCHANGED <<fs, fs0, lights_src_name, raised, baseline, stack, files, cat, folders, log>>

\* Lines 53-58: setup_directories(dest_root, target_dirs).
Provision ==
    /\ pc = "setup" /\ Running
    /\ LET r == setup_directories(fs, dest_root(lights_src_name), target_dirs)
       IN  /\ fs' = r.fs
           /\ raised' = r.raised
           /\ pc' = IF r.raised = "none" THEN "lights" ELSE pc
    /\ UNCHANGED <<fs0, lights_src_name, baseline, stack, files, cat, folders, log>>

\* Lines 61-66: the rglob over the lights source starts if it is a directory.
LightsBegin ==
    /\ pc = "lights" /\ Running
    /\ IF IsDir(fs, lights_src_path(lights_src_name))
       THEN /\ stack' = <<{lights_src_path(lights_src_name)}>>
            /\ pc' = "lightsloop"
       ELSE /\ stack' = <<>>
            /\ pc' = "check"
    /\ UNCHANGED <<fs, fs0, lights_src_name, raised, baseline, files, cat, folders, log>>

\* The stack without its exhausted levels.
Trim(st) == SelectSeq(st, LAMBDA level : level # {})

\* rglob("*.fits") resumed with the directories of st still to visit: it takes
\* a directory d of the innermost level, lists it, and either has matching
\* entries to yield before it descends into the subdirectories of d, or
\* descends at once. The result is every point at which it next yields, or
\* its exhaustion; nothing is written between two yields.
RECURSIVE RglobResume(_, _)
RglobResume(f, st) ==
    IF st = <<>> THEN {[stack |-> <<>>, files |-> {}]}
    ELSE UNION {
        LET entries == IterDir(f, d)
            matches == {p \in entries : GlobMatch(PathName(p))}
            rest == [st EXCEPT ![Len(st)] = @ \ {d}]
            after == Trim(Append(rest, {p \in entries : IsDir(f, p)}))
        IN  IF matches # {} THEN {[stack |-> after, files |-> matches]}
            ELSE RglobResume(f, after)
        : d \in st[Len(st)]}

\* The generator of rglob is resumed after the last match of a directory.
RglobDir ==
    /\ pc \in {"lightsloop", "caliloop"} /\ Running
    /\ files = {} /\ stack # <<>>
    /\ \E g \in RglobResume(fs, stack) :
        /\ files' = g.files
        /\ stack' = g.stack
    /\ UNCHANGED <<fs, fs0, lights_src_name, pc, raised, baseline, cat, folders, log>>

\* The record of one call of shutil.copy2.
LogEntry(f, src, dest, r, sub) ==
    [src |-> src, dest |-> dest, org |-> f[src].org, existed |-> Exists(f, dest),
     ok |-> r.raised = "none", wrote |-> r.fs # f,
     node |-> IF r.fs # f THEN r.fs[dest] ELSE f[src], sub |-> sub]

\* Lines 66-74: one iteration of the loop over the light frames.
LightFile ==
    /\ pc = "lightsloop" /\ Running
    /\ \E fits_file \in files, io \in {"ok", "error", "partial"} :
        /\ files' = files \ {fits_file}
        /\ IF Excluded(PathName(fits_file))
           THEN UNCHANGED <<fs, raised, baseline, log>>
           ELSE LET dest == get_unique_path(fs, Join(lights_dest_path(lights_src_name),
                                                      PathName(fits_file)))
                    r == copy2(fs, fits_file, dest, io)
                IN  /\ baseline' = IF ~baseline.some
                                   THEN get_fits_metadata(fs, fits_file) ELSE baseline
                    /\ fs' = r.fs
                    /\ raised' = r.raised
                    /\ log' = log \cup {LogEntry(fs, fits_file, dest, r, N_lights)}
    /\ UNCHANGED <<fs0, lights_src_name, pc, stack, cat, folders>>

\* The loop over the light frames is exhausted.
LightsEnd ==
    /\ pc = "lightsloop" /\ Running
    /\ files = {} /\ stack = <<>>
    /\ pc' = "check"
    /\ UNCHANGED <<fs, fs0, lights_src_name, raised, baseline, stack, files, cat, folders, log>>

\* Lines 76-88: without a baseline the run reports the error and returns;
\* otherwise the calibration phase starts if CALI_FRAME is a directory.
CheckBaseline ==
    /\ pc = "check" /\ Running
    /\ pc' = IF ~baseline.some THEN "aborted"
             ELSE IF IsDir(fs, cali_root) THEN "caliloop" ELSE "done"
    /\ UNCHANGED <<fs, fs0, lights_src_name, raised, baseline, stack, files, cat, folders, log>>

\* Lines 89-95: the next category of cali_map, or the end of the run.
CaliCategory ==
    /\ pc = "caliloop" /\ Running
    /\ files = {} /\ stack = <<>> /\ folders = {}
    /\ IF cat = Len(cali_map)
       THEN /\ pc' = "done"
            /\ UNCHANGED <<cat, folders>>
       ELSE LET source_cat == Join(cali_root, cali_map[cat + 1].src)
            IN  /\ cat' = cat + 1
                /\ folders' = IF IsDir(fs, source_cat) THEN IterDir(fs, source_cat) ELSE {}
                /\ pc' = pc
    /\ UNCHANGED <<fs, fs0, lights_src_name, raised, baseline, stack, files, log>>

\* Lines 95-97: one entry of the category directory.
CaliFolder ==
    /\ pc = "caliloop" /\ Running
    /\ files = {} /\ stack = <<>>
    /\ \E folder \in folders :
        /\ folders' = folders \ {folder}
        /\ stack' = IF IsDir(fs, folder) /\ cam_regex_match(PathName(folder))
                    THEN <<{folder}>> ELSE <<>>
    /\ UNCHANGED <<fs, fs0, lights_src_name, pc, raised, baseline, files, cat, log>>

\* Lines 97-115: one iteration of the loop over the frames of a camera folder.
CaliFile ==
    /\ pc = "caliloop" /\ Running
    /\ \E fits_file \in files, io \in {"ok", "error", "partial"} :
        LET meta == get_fits_metadata(fs, fits_file)
            dest_sub == cali_map[cat].dest
            dest_cat == Join(dest_root(lights_src_name), dest_sub)
        IN  /\ files' = files \ {fits_file}
            /\ IF ~meta.some \/ Rejected(meta, baseline, dest_sub)
               THEN UNCHANGED <<fs, raised, log>>
               ELSE LET dest == get_unique_path(fs, Join(dest_cat, PathName(fits_file)))
                        r == copy2(fs, fits_file, dest, io)
                    IN  /\ fs' = r.fs
                        /\ raised' = r.raised
                        /\ log' = log \cup {LogEntry(fs, fits_file, dest, r, dest_sub)}
    /\ UNCHANGED <<fs0, lights_src_name, pc, baseline, stack, cat, folders>>

Next ==
    \/ Main
    \/ Provision
    \/ LightsBegin
    \/ RglobDir
    \/ LightFile
    \/ LightsEnd
    \/ CheckBaseline
    \/ CaliCategory
    \/ CaliFolder
    \/ CaliFile

Spec == Init /\ [][Next]_vars

----------------------------------------------------------------------------
\* Vocabulary of the properties

\* The run has stopped: it returned, or an exception ended it.
Terminal == raised # "none" \/ pc \in {"invalid", "aborted", "done"}

\* setup_directories has returned.
Provisioned == pc \in {"lights", "lightsloop", "check", "caliloop", "aborted", "done"}

\* The four destination directories of the run.
DestDir(sub) == Join(dest_root(lights_src_name), sub)

CaliDests == {N_darks, N_flats, N_biases}

\* A name starts with the letters of word, whatever their case.
HasPrefixAnyCase(name, word) ==
    /\ Len(name) >= Len(word)
    /\ \A i \in 1..Len(word) : name[i] = word[i] \/ LowerChar(name[i]) = word[i]

W_failed == <<"f", "a", "i", "l", "e", "d">>
W_stacked == <<"s", "t", "a", "c", "k", "e", "d">>

ExcludedName(name) == HasPrefixAnyCase(name, W_failed) \/ HasPrefixAnyCase(name, W_stacked)

\* The regular *.fits files of the lights source that were there when the
\* lights phase began and are not excluded by name.
LightFrames ==
    {p \in DOMAIN fs0 \cap DOMAIN fs :
        /\ fs[p] = fs0[p] /\ fs[p].kind = "file"
        /\ Below(lights_src_path(lights_src_name), p)
        /\ EndsWith(PathName(p), DotFits)
        /\ ~ExcludedName(PathName(p))}

\* The frames whose own copy raised.
FailedCopies == {e.src : e \in {x \in log : ~x.ok}}

\* The calibration category a destination directory belongs to.
CategoryOf(sub) == CASE sub = N_darks -> N_dark [] sub = N_flats -> N_flat [] OTHER -> N_bias

\* p is a frame below a first-level subdirectory cam_0* of CALI_FRAME/<category>.
UnderCamZero(p, category) ==
    /\ Len(p) >= 4
    /\ p[1] = N_cali /\ p[2] = category
    /\ Len(p[3]) >= 5 /\ SubSeq(p[3], 1, 5) = <<"c", "a", "m", "_", "0">>

\* The path stem_k.suffix next to d.
Numbered(d, k) ==
    Append(Parent(d), Stem(PathName(d)) \o <<"_">> \o Str(k) \o Suffix(PathName(d)))

\* The destinations get_unique_path may be asked for in the current state.
Requests ==
    {Join(DestDir(sub), PathName(p)) :
        sub \in {N_lights} \cup CaliDests,
        p \in {q \in DOMAIN fs : EndsWith(PathName(q), DotFits)}}

----------------------------------------------------------------------------
\* C1: every copy writes to a path that did not exist just before the write,
\* the destinations of the copies of one run are pairwise distinct, and what a
\* copy wrote is still there, unchanged, after every later transfer.
C1_NoOverwrite ==
    /\ \A e \in log : ~e.existed
    /\ \A e1, e2 \in log : e1.dest = e2.dest => e1 = e2
    /\ \A e \in log : e.wrote => /\ e.dest \in DOMAIN fs
                                 /\ fs[e.dest] = e.node

\* Three frames of one name were transferred into one directory.
C1_Witness ==
    \E e1, e2, e3 \in log :
        /\ e1.ok /\ e2.ok /\ e3.ok
        /\ Cardinality({e1.dest, e2.dest, e3.dest}) = 3
        /\ PathName(e1.src) = PathName(e2.src) /\ PathName(e2.src) = PathName(e3.src)
        /\ e1.sub = e2.sub /\ e2.sub = e3.sub

\* C2: get_unique_path(d) is d when d does not exist; when d exists it is
\* stem_k.suffix in the directory of d for the smallest k >= 1 whose path does
\* not exist, so it does not exist and differs from d.
C2_UniquePath ==
    \A d \in Requests :
        LET r == get_unique_path(fs, d)
        IN  /\ ~Exists(fs, d) => r = d
            /\ Exists(fs, d) =>
                /\ r # d /\ ~Exists(fs, r) /\ Parent(r) = Parent(d)
                /\ \E k \in 1..Cardinality(DOMAIN fs) :
                    /\ r = Numbered(d, k)
                    /\ \A j \in 1..(k - 1) : Exists(fs, Numbered(d, j))

\* Two sources named a.fits were copied to the lights: one is a.fits, the
\* other a_1.fits, and a third request for the name would get a_2.fits.
C2_Witness ==
    /\ \E e1, e2 \in log :
        /\ e1.ok /\ e2.ok /\ e1.src # e2.src
        /\ e1.dest = Join(DestDir(N_lights), N_a)
        /\ e2.dest = Join(DestDir(N_lights), N_a1)
    /\ get_unique_path(fs, Join(DestDir(N_lights), N_a))
         = Join(DestDir(N_lights), <<"a", "_", "2">> \o DotFits)

\* C3: when setup_directories has returned, each of the named directories
\* exists, is a directory and has nothing below it, and a second call in a
\* row raises nothing and leaves the filesystem as it is.
C3_ProvisionEmpty ==
    pc = "lights" =>
        /\ \A i \in 1..Len(target_dirs) :
            /\ DestDir(target_dirs[i]) \in DOMAIN fs
            /\ fs[DestDir(target_dirs[i])].kind = "dir"
            /\ \A p \in DOMAIN fs : ~Below(DestDir(target_dirs[i]), p)
        /\ setup_directories(fs, dest_root(lights_src_name), target_dirs)
             = [fs |-> fs, raised |-> "none"]

\* setup_directories returned for a destination that held a file two levels
\* below one of the named directories.
C3_Witness ==
    /\ pc = "lights"
    /\ \E i \in 1..Len(target_dirs), p \in DOMAIN fs0 :
        /\ Below(DestDir(target_dirs[i]), p)
        /\ Len(p) >= Len(DestDir(target_dirs[i])) + 2
        /\ fs0[p].kind = "file"

\* C4: every .fits file below the lights source or below CALI_FRAME when the
\* run starts is at the same path with the same content for the rest of the run.
C4_SourcesIntact ==
    pc \notin {"main", "invalid"} =>
        \A p \in DOMAIN fs0 :
            (/\ fs0[p].kind = "file"
             /\ EndsWith(PathName(p), DotFits)
             /\ \/ Below(lights_src_path(lights_src_name), p)
                \/ Below(cali_root, p))
            => (p \in DOMAIN fs /\ fs[p] = fs0[p])

\* C5: no frame whose name starts with failed or stacked, in any case, is
\* copied to the lights or gives the baseline, and when the run has stopped
\* every other *.fits file of the lights source whose own copy did not raise
\* has been copied to the lights.
C5_Exclusion ==
    /\ \A e \in log : e.sub = N_lights => ~ExcludedName(PathName(e.src))
    /\ baseline.some =>
        \E p \in DOMAIN fs :
            /\ ~ExcludedName(PathName(p))
            /\ get_fits_metadata(fs, p) = baseline
    /\ (Terminal /\ Provisioned) =>
        \A p \in LightFrames \ FailedCopies :
            \E e \in log : e.src = p /\ e.sub = N_lights /\ e.ok

\* C6 as first stated: a file of CALI_FRAME is copied by the run only if it
\* lies inside a first-level subdirectory cam_0* of its category directory,
\* and then only to the destination of that category.
C6_Original ==
    \A e \in log :
        (Len(e.org) >= 1 /\ e.org[1] = N_cali) =>
            \E sub \in CaliDests : UnderCamZero(e.org, CategoryOf(sub)) /\ e.sub = sub

\* C6: whatever is in darks, flats or biases once provisioning is done came
\* from a file below CALI_FRAME/dark, CALI_FRAME/flat or CALI_FRAME/bias
\* respectively, inside a first-level subdirectory whose name starts with cam_0.
C6_CameraZeroOnly ==
    Provisioned =>
        \A sub \in CaliDests, p \in DOMAIN fs :
            Below(DestDir(sub), p) =>
                /\ fs[p].org \in DOMAIN fs0
                /\ fs0[fs[p].org].kind = "file"
                /\ UnderCamZero(fs[p].org, CategoryOf(sub))

\* The run ended with a dark staged while the session held a dark of cam_1.
C6_Witness ==
    /\ pc = "done"
    /\ \E p \in DOMAIN fs : Below(DestDir(N_darks), p)
    /\ <<N_cali, N_dark, N_cam1, N_a>> \in DOMAIN fs0

\* The frame with metadata m matches the baseline, for a category.
Compatible(m, category) ==
    /\ m.x = baseline.x /\ m.y = baseline.y
    /\ category = N_dark => m.exposure = baseline.exposure

\* C7: when the run has stopped with a baseline, a readable calibration frame
\* of a cam_0* subdirectory, whose own copy did not raise, has been copied to
\* the directory of its category if and only if its width and height equal
\* the baseline's and, for a dark, its exposure equals the baseline's.
C7_CopiedIffCompatible ==
    (Terminal /\ Provisioned /\ baseline.some) =>
        \A sub \in CaliDests, p \in DOMAIN fs0 \ FailedCopies :
            (/\ UnderCamZero(p, CategoryOf(sub))
             /\ fs0[p].kind = "file" /\ fs0[p].hdr.ok
             /\ EndsWith(PathName(p), DotFits))
            => ((\E e \in log : e.src = p /\ e.sub = sub /\ e.ok)
                <=> Compatible(get_fits_metadata(fs0, p), CategoryOf(sub)))

\* C8: a calibration frame is copied only if every compared field is present
\* on the frame and on the baseline.
C8_FailClosed ==
    \A e \in log : e.sub \in CaliDests =>
        LET m == get_fits_metadata(fs, e.src)
        IN  /\ m.x # None /\ baseline.x # None
            /\ m.y # None /\ baseline.y # None
            /\ e.sub = N_darks => (m.exposure # None /\ baseline.exposure # None)

\* C9: a copy that fails does not end the run: the run goes on to the
\* remaining frames, so it never stops inside one of the two transfer loops.
C9_CopyFailureCaught ==
    /\ pc \in {"lightsloop", "caliloop"} => ~Terminal
    /\ (\E e \in log : ~e.ok) => raised = "none"

\* No light frame of the run can give a baseline.
NoLightYieldsMeta ==
    \A p \in DOMAIN fs :
        (/\ Below(lights_src_path(lights_src_name), p)
         /\ EndsWith(PathName(p), DotFits)
         /\ ~ExcludedName(PathName(p)))
        => ~get_fits_metadata(fs, p).some

\* C10: when no light frame yields metadata, the run stops only by reporting
\* the error and returning, and nothing is ever written to darks, flats or
\* biases; the calibration phase is entered only with a baseline.
C10_NoBaselineAbort ==
    /\ (Terminal /\ Provisioned /\ NoLightYieldsMeta) =>
        (pc = "aborted" /\ raised = "none")
    /\ (Provisioned /\ NoLightYieldsMeta) =>
        \A sub \in CaliDests, p \in DOMAIN fs : ~Below(DestDir(sub), p)
    /\ pc \in {"caliloop", "done"} => baseline.some

----------------------------------------------------------------------------
\* What C5, C7 and C10 come to in the runs that no exception ends: the three
\* fail through the exception of an unguarded shutil.copy2 alone.

NoRaise_C5 == raised = "none" => C5_Exclusion

NoRaise_C7 == raised = "none" => C7_CopiedIffCompatible

NoRaise_C10 == raised = "none" => C10_NoBaselineAbort

====
